---- MODULE Spec2Model ----
(***************************************************************************)
(* Model of the deployment smoke test (test_deployment.py) and of the      *)
(* deployment file validator (validate_deployment.py).                     *)
(*                                                                         *)
(* Spec          main() of test_deployment.py under every flag combination *)
(* SpecProbes    one environment runner, every HTTP outcome of every probe *)
(* SpecValidate  validate_vercel_files() over every disk content           *)
(***************************************************************************)
EXTENDS Integers, Sequences, FiniteSets, TLC

VARIABLES
    args,          \* argparse namespace: local, vercel (a URL was given), both
    pc,            \* position of main() and of the runner / probe it is inside
    runner,        \* the runner call in progress: "none", "local", "vercel", "example"
    calls,         \* probes invoked by the runner call in progress, in order
    reply,         \* outcome of the HTTP call of the probe last run
    returned,      \* what the probe last run gave: the dict returned, or Raise(e)
    pending,       \* main probe: value of its return statement, before finally
    health_result, \* runner local
    cap_result,    \* runner local
    api_result,    \* runner local
    duration,      \* runner local (remote runner only)
    tmp_exists,    \* the temporary file of this runner's main probe is on the filesystem
    unlinked,      \* outcome of os.unlink in the last main probe
    results,       \* main(): env name -> bundle
    printed,       \* guidance lines printed by the summary
    exit_code,     \* <<>> while running, <<code>> once the process has ended
    disk,          \* validator: set of required files present
    vercel_text,   \* validator: text of vercel.json
    index_names,   \* validator: identifiers occurring in api/index.py
    vpc,           \* validator: position
    missing_files, \* validator: list accumulated by the existence loop
    report,        \* validator: diagnostics printed
    retval         \* validator: <<>> until it returns, then <<value>>

tvars == <<args, pc, runner, calls, reply, returned, pending, health_result,
           cap_result, api_result, duration, tmp_exists, unlinked, results,
           printed, exit_code>>
vvars == <<disk, vercel_text, index_names, vpc, missing_files, report, retval>>
vars == <<tvars, vvars>>

(***************************************************************************)
(* Bounds                                                                  *)
(***************************************************************************)
\* measured durations, in whole seconds, range over
\* ColdStartThreshold - 1 .. ColdStartThreshold + MaxOver
MaxOver == 1

\* the cold-start threshold of the summary, in seconds
ColdStartThreshold == 10

Durations == (ColdStartThreshold - 1)..(ColdStartThreshold + MaxOver)

(***************************************************************************)
(* JSON values, as json.loads / response.json() produce them               *)
(***************************************************************************)
JNull == [t |-> "null"]
JNum(n) == [t |-> "num", n |-> n]
JStr(s) == [t |-> "str", s |-> s]
JList(items) == [t |-> "list", items |-> items]
JObj(f) == [t |-> "obj", f |-> f]
EmptyObj == JObj([k \in {} |-> JNull])

\* isinstance(v, dict): the only JSON value with .get and .keys
IsDict(v) == v.t = "obj"

\* d.get(key, default)
DictGet(d, key, default) == IF key \in DOMAIN d.f THEN d.f[key] ELSE default

\* bool(v)
Truthy(v) ==
    CASE v.t = "null" -> FALSE
      [] v.t = "num" -> v.n # 0
      [] v.t = "str" -> v.s # ""
      [] v.t = "list" -> v.items # <<>>
      [] v.t = "obj" -> DOMAIN v.f # {}

\* len(v) and iteration are defined for strings, lists and dicts only
HasLen(v) == v.t \in {"str", "list", "obj"}

\* ', '.join(v) needs an iterable whose items are all strings
JoinOk(v) ==
    CASE v.t = "str" -> TRUE
      [] v.t = "obj" -> TRUE
      [] v.t = "list" -> \A i \in DOMAIN v.items : v.items[i].t = "str"
      [] OTHER -> FALSE

\* `key in v`: raises TypeError on a value that is no container
InRaises(v) == v.t \in {"null", "num"}

\* `key in v` on a container: key of a dict, element of a list, substring of
\* a string (the only strings tested are no longer than the key)
InHolds(key, v) ==
    CASE v.t = "obj" -> key \in DOMAIN v.f
      [] v.t = "list" -> \E i \in DOMAIN v.items : v.items[i] = JStr(key)
      [] v.t = "str" -> v.s = key
      [] OTHER -> FALSE

(***************************************************************************)
(* Response bodies and configuration texts                                 *)
(***************************************************************************)
HealthText == "{\"orchestrator\":\"ok\",\"workflows_available\":3}"
CapText == "{\"available_workflows\":[\"gdp\",\"weather\",\"custom\"]}"
CapNullText == "{\"available_workflows\":null}"
MainText == "{\"task_id\":\"abc123\",\"status\":\"completed\",\"result\":{\"results\":{\"answer\":1},\"plot_base64\":\"xyz\"}}"
MainListText == "{\"result\":[1]}"
MainProcText == "{\"processing_info\":{\"platform\":\"vercel\",\"enhanced_features\":[\"cache\"]}}"
MainFeatText == "{\"processing_info\":{\"enhanced_features\":[1]}}"
EmptyObjText == "{}"
ListText == "[]"
NullText == "null"
BadText == "<html>"
ConfigText == "{\"builds\":[],\"routes\":[]}"
ConfigNoRoutesText == "{\"builds\":[]}"
ConfigListText == "[\"builds\",\"routes\"]"
NumText == "1"

\* json.loads(text): the decoded value, or JSONDecodeError
JsonLoads(text) ==
    CASE text = HealthText ->
           [ok |-> TRUE, value |-> JObj([orchestrator |-> JStr("ok"),
                                         workflows_available |-> JNum(3)])]
      [] text = CapText ->
           [ok |-> TRUE, value |-> JObj([available_workflows |->
                 JList(<<JStr("gdp"), JStr("weather"), JStr("custom")>>)])]
      [] text = CapNullText ->
           [ok |-> TRUE, value |-> JObj([available_workflows |-> JNull])]
      [] text = MainText ->
           [ok |-> TRUE, value |-> JObj([task_id |-> JStr("abc123"),
                 status |-> JStr("completed"),
                 result |-> JObj([results |-> JObj([answer |-> JNum(1)]),
                                  plot_base64 |-> JStr("xyz")])])]
      [] text = MainListText ->
           [ok |-> TRUE, value |-> JObj([result |-> JList(<<JNum(1)>>)])]
      [] text = MainProcText ->
           [ok |-> TRUE, value |-> JObj([processing_info |->
                 JObj([platform |-> JStr("vercel"),
                       enhanced_features |-> JList(<<JStr("cache")>>)])])]
      [] text = MainFeatText ->
           [ok |-> TRUE, value |-> JObj([processing_info |->
                 JObj([enhanced_features |-> JList(<<JNum(1)>>)])])]
      [] text = EmptyObjText -> [ok |-> TRUE, value |-> EmptyObj]
      [] text = ListText -> [ok |-> TRUE, value |-> JList(<<>>)]
      [] text = NullText -> [ok |-> TRUE, value |-> JNull]
      [] text = NumText -> [ok |-> TRUE, value |-> JNum(1)]
      [] text = ConfigText ->
           [ok |-> TRUE, value |-> JObj([builds |-> JList(<<>>),
                                         routes |-> JList(<<>>)])]
      [] text = ConfigNoRoutesText ->
           [ok |-> TRUE, value |-> JObj([builds |-> JList(<<>>)])]
      [] text = ConfigListText ->
           [ok |-> TRUE, value |-> JList(<<JStr("builds"), JStr("routes")>>)]
      [] OTHER -> [ok |-> FALSE]

(***************************************************************************)
(* HTTP outcomes (the server and the network are the environment)          *)
(***************************************************************************)
Timeout == [kind |-> "timeout"]
Refused == [kind |-> "refused"]
Response(code, text) == [kind |-> "response", code |-> code, text |-> text]

StatusCodes == {200, 300, 404, 500}
BodyTexts == {HealthText, CapText, CapNullText, MainText, MainListText,
              MainProcText, MainFeatText, EmptyObjText, ListText, BadText}

\* every outcome of one HTTP call
AllReplies == {Timeout, Refused}
                \cup {Response(c, b) : c \in StatusCodes, b \in BodyTexts}

\* the outcomes main() is explored with: a transport failure, and a 200
\* response with an object and with a non-object body
CoreReplies == {Timeout}
                \cup {Response(200, b) : b \in {EmptyObjText, ListText}}

\* Response.raise_for_status(): raises HTTPError for 4xx and 5xx only
RaiseForStatus(code) == 400 <= code /\ code < 600

HttpErrorMsg(code) ==
    IF code < 500 THEN ToString(code) \o " Client Error"
                  ELSE ToString(code) \o " Server Error"

\* an exception object; str(e) is its message
Exc(type, msg) == [type |-> type, msg |-> msg]
Str(e) == e.msg

\* The three statements inside each probe's try block: the request,
\* raise_for_status() and response.json().  Gives the exception raised or
\* the decoded body.
Request(r) ==
    CASE r.kind = "timeout" ->
           [raised |-> TRUE, exc |-> Exc("ReadTimeout", "Read timed out.")]
      [] r.kind = "refused" ->
           [raised |-> TRUE, exc |-> Exc("ConnectionError", "Connection refused")]
      [] r.kind = "response" /\ RaiseForStatus(r.code) ->
           [raised |-> TRUE, exc |-> Exc("HTTPError", HttpErrorMsg(r.code))]
      [] r.kind = "response" /\ ~RaiseForStatus(r.code) /\ ~JsonLoads(r.text).ok ->
           [raised |-> TRUE, exc |-> Exc("JSONDecodeError", "Expecting value")]
      [] OTHER ->
           [raised |-> FALSE, value |-> JsonLoads(r.text).value]

(***************************************************************************)
(* Probes.  A probe gives the dict it returns, or Raise(e) when an         *)
(* exception leaves it.                                                    *)
(***************************************************************************)
Unset == [unset |-> TRUE]
Raise(e) == [raise |-> e]
IsRaise(x) == "raise" \in DOMAIN x
IsResult(x) == "status" \in DOMAIN x

\* faulty variant for C1: the handler catches requests.HTTPError only
HealthCatchesHttpErrorOnly(r) ==
    LET a == Request(r) IN
    IF a.raised
    THEN IF a.exc.type = "HTTPError"
         THEN [status |-> "error", error |-> Str(a.exc)]
         ELSE Raise(a.exc)
    ELSE [status |-> "success", data |-> a.value]

test_health_endpoint(r) ==
    LET a == Request(r) IN
    IF a.raised
    THEN [status |-> "error", error |-> Str(a.exc)]
    ELSE [status |-> "success", data |-> a.value]

test_capabilities_endpoint(r) ==
    LET a == Request(r) IN
    IF a.raised
    THEN [status |-> "error", error |-> Str(a.exc)]
    ELSE [status |-> "success", data |-> a.value]

\* faulty variant for C7: the error result also carries an (empty) data entry
MainTryFillsData(r) ==
    LET a == Request(r) IN
    IF a.raised
    THEN [status |-> "error", error |-> Str(a.exc), data |-> JNull]
    ELSE [status |-> "success", data |-> a.value]

\* try / except of test_main_api_endpoint: the value of its return statement
MainTry(r) ==
    LET a == Request(r) IN
    IF a.raised
    THEN [status |-> "error", error |-> Str(a.exc)]
    ELSE [status |-> "success", data |-> a.value]

\* faulty variant for C2: the finally block does not delete the file
UnlinkSkipped(exists, ok) == exists

\* finally of test_main_api_endpoint: os.unlink inside try / except: pass.
\* Gives whether the file is still there; a failed unlink is swallowed.
Unlink(exists, ok) == IF ok THEN FALSE ELSE exists

(***************************************************************************)
(* Environment runners: what each does with a probe's result before the    *)
(* next probe.  TRUE when the block raises (AttributeError / TypeError).   *)
(***************************************************************************)
\* test_local_server and test_vercel_deployment, after the health probe:
\* health_result['data'].get(...)
HealthReportRaises(res) ==
    res.status = "success" /\ ~IsDict(res.data)

\* after the capabilities probe: cap_result['data'].get(...), len(workflows)
CapReportRaises(res) ==
    res.status = "success"
      /\ (~IsDict(res.data)
          \/ ~HasLen(DictGet(res.data, "available_workflows", JList(<<>>))))

\* test_local_server after the main probe: .get(...), result.keys()
LocalMainReportRaises(res) ==
    res.status = "success"
      /\ (~IsDict(res.data)
          \/ LET result == DictGet(res.data, "result", EmptyObj) IN
             Truthy(result) /\ ~IsDict(result))

\* test_vercel_deployment after the main probe: .get(...), proc_info.get(...),
\* ', '.join(features)
VercelMainReportRaises(res) ==
    res.status = "success"
      /\ (~IsDict(res.data)
          \/ LET proc_info == DictGet(res.data, "processing_info", EmptyObj) IN
             Truthy(proc_info)
               /\ (~IsDict(proc_info)
                   \/ ~JoinOk(DictGet(proc_info, "enhanced_features", JList(<<>>)))))

MainReportRaises(env, res) ==
    IF env = "local" THEN LocalMainReportRaises(res) ELSE VercelMainReportRaises(res)

\* the key of results a runner call is stored under
EnvOf(r) == IF r = "local" THEN "local" ELSE "vercel"

\* a float, as the bundle's duration entry holds it
PyFloat(d) == [float |-> d]

\* isinstance(r, dict) on a value of a bundle
IsResultDict(r) == "float" \notin DOMAIN r

\* the dict a runner returns
Bundle(env, h, c, m, d) ==
    IF env = "local"
    THEN [health |-> h, capabilities |-> c, main_api |-> m]
    ELSE [health |-> h, capabilities |-> c, main_api |-> m, duration |-> PyFloat(d)]

(***************************************************************************)
(* Summary of main()                                                       *)
(***************************************************************************)
\* faulty variant for C4: any() in place of all()
AnySuccess(bundle) ==
    \E k \in DOMAIN bundle :
        IsResultDict(bundle[k]) /\ bundle[k].status = "success"

\* all(r['status'] == 'success' for r in bundle.values() if isinstance(r, dict))
AllSuccess(bundle) ==
    \A k \in DOMAIN bundle :
        IsResultDict(bundle[k]) => bundle[k].status = "success"

\* faulty variant for C9: the 'local' in results test is dropped, no bundle counts as passed
LocalGuidanceNoPresenceTest(res) ==
    IF "local" \in DOMAIN res => AllSuccess(res["local"])
    THEN {"local_passed"}
    ELSE {"local_failed"}

\* the local branch of "Next steps"
LocalGuidance(res) ==
    IF "local" \in DOMAIN res /\ AllSuccess(res["local"])
    THEN {"local_passed"}
    ELSE {"local_failed"}

\* faulty variant for C10: >= in place of >
VercelGuidanceAtLeast(res) ==
    IF "vercel" \in DOMAIN res
    THEN IF AllSuccess(res["vercel"])
         THEN {"vercel_working"}
                \cup (IF res["vercel"].duration.float >= ColdStartThreshold
                      THEN {"cold_start"} ELSE {})
         ELSE {"vercel_issues"}
    ELSE {}

\* the remote branch of "Next steps"
VercelGuidance(res) ==
    IF "vercel" \in DOMAIN res
    THEN IF AllSuccess(res["vercel"])
         THEN {"vercel_working"}
                \cup (IF res["vercel"].duration.float > ColdStartThreshold
                      THEN {"cold_start"} ELSE {})
         ELSE {"vercel_issues"}
    ELSE {}

(***************************************************************************)
(* Initial states                                                          *)
(***************************************************************************)
NoResults == [k \in {} |-> Unset]

ValidatorIdle ==
    /\ disk = {}
    /\ vercel_text = BadText
    /\ index_names = {}
    /\ vpc = "idle"
    /\ missing_files = <<>>
    /\ report = {}
    /\ retval = <<>>

TestIdle ==
    /\ args = [local |-> FALSE, vercel |-> FALSE, both |-> FALSE]
    /\ pc = "idle"
    /\ runner = "none"
    /\ calls = <<>>
    /\ reply = Unset
    /\ returned = Unset
    /\ pending = Unset
    /\ health_result = Unset
    /\ cap_result = Unset
    /\ api_result = Unset
    /\ duration = 0
    /\ tmp_exists = FALSE
    /\ unlinked = "none"
    /\ results = NoResults
    /\ printed = {}
    /\ exit_code = <<>>

\* main() after parse_args, for the flags in A
InitFlags(A) ==
    /\ args \in A
    /\ pc = "args_local"
    /\ runner = "none"
    /\ calls = <<>>
    /\ reply = Unset
    /\ returned = Unset
    /\ pending = Unset
    /\ health_result = Unset
    /\ cap_result = Unset
    /\ api_result = Unset
    /\ duration = 0
    /\ tmp_exists = FALSE
    /\ unlinked = "none"
    /\ results = NoResults
    /\ printed = {}
    /\ exit_code = <<>>
    /\ ValidatorIdle

AllFlags == [local : BOOLEAN, vercel : BOOLEAN, both : BOOLEAN]
OneRunnerFlags == {a \in AllFlags : ~a.both /\ (a.local # a.vercel)}

Init == InitFlags(AllFlags)
InitProbes == InitFlags(OneRunnerFlags)

(***************************************************************************)
(* main(): starting the runners                                            *)
(***************************************************************************)
EnterRunner(r) ==
    /\ runner' = r
    /\ pc' = "health"
    /\ calls' = <<>>

\* if args.local or args.both: input(...); results['local'] = test_local_server()
\* (the operator is taken to press Enter)
StartLocal ==
    /\ pc = "args_local"
    /\ IF args.local \/ args.both
       THEN EnterRunner("local")
       ELSE pc' = "args_vercel" /\ UNCHANGED <<runner, calls>>
    /\ UNCHANGED <<args, reply, returned, pending, health_result, cap_result,
                   api_result, duration, tmp_exists, unlinked, results, printed,
                   exit_code, vvars>>

\* if args.vercel: results['vercel'] = test_vercel_deployment(args.vercel)
StartVercel ==
    /\ pc = "args_vercel"
    /\ IF args.vercel
       THEN EnterRunner("vercel")
       ELSE pc' = "args_both" /\ UNCHANGED <<runner, calls>>
    /\ UNCHANGED <<args, reply, returned, pending, health_result, cap_result,
                   api_result, duration, tmp_exists, unlinked, results, printed,
                   exit_code, vvars>>

\* if args.both: results['vercel'] = test_vercel_deployment(example_url)
StartExample ==
    /\ pc = "args_both"
    /\ IF args.both
       THEN EnterRunner("example")
       ELSE pc' = "summary" /\ UNCHANGED <<runner, calls>>
    /\ UNCHANGED <<args, reply, returned, pending, health_result, cap_result,
                   api_result, duration, tmp_exists, unlinked, results, printed,
                   exit_code, vvars>>

(***************************************************************************)
(* The runner in progress                                                  *)
(***************************************************************************)
\* an exception leaves the runner and main(): traceback, exit status 1
Fault ==
    /\ pc' = "fault"
    /\ exit_code' = <<1>>

\* health_result = test_health_endpoint(url), then the prints that read it
HealthStep(R) ==
    /\ pc = "health"
    /\ \E r \in R :
         LET res == test_health_endpoint(r) IN
         /\ reply' = r
         /\ calls' = Append(calls, "health")
         /\ IF IsRaise(res)
            THEN Fault /\ returned' = res /\ UNCHANGED health_result
            ELSE /\ returned' = res
                 /\ health_result' = res
                 /\ IF HealthReportRaises(res)
                    THEN Fault
                    ELSE pc' = "capabilities" /\ UNCHANGED exit_code
    /\ UNCHANGED <<args, runner, pending, cap_result, api_result, duration,
                   tmp_exists, unlinked, results, printed, vvars>>

\* cap_result = test_capabilities_endpoint(url), then the prints that read it
CapStep(R) ==
    /\ pc = "capabilities"
    /\ \E r \in R :
         LET res == test_capabilities_endpoint(r) IN
         /\ reply' = r
         /\ calls' = Append(calls, "capabilities")
         /\ IF IsRaise(res)
            THEN Fault /\ returned' = res /\ UNCHANGED cap_result
            ELSE /\ returned' = res
                 /\ cap_result' = res
                 /\ IF CapReportRaises(res)
                    THEN Fault
                    ELSE pc' = "main_create" /\ UNCHANGED exit_code
    /\ UNCHANGED <<args, runner, pending, health_result, api_result, duration,
                   tmp_exists, unlinked, results, printed, vvars>>

\* test_main_api_endpoint is entered: create_test_questions_file() writes and
\* closes a fresh temporary file (the temporary directory is taken as writable)
MainCreate ==
    /\ pc = "main_create"
    /\ calls' = Append(calls, "main_api")
    /\ tmp_exists' = TRUE
    /\ unlinked' = "none"
    /\ returned' = Unset
    /\ reply' = Unset
    /\ pc' = "main_post"
    /\ UNCHANGED <<args, runner, pending, health_result, cap_result, api_result,
                   duration, results, printed, exit_code, vvars>>

\* with open(...): requests.post(...), raise_for_status(), json(); except
MainPost(R) ==
    /\ pc = "main_post"
    /\ \E r \in R :
         /\ reply' = r
         /\ pending' = MainTry(r)
    /\ pc' = "main_finally"
    /\ UNCHANGED <<args, runner, calls, returned, health_result, cap_result,
                   api_result, duration, tmp_exists, unlinked, results, printed,
                   exit_code, vvars>>

\* finally: os.unlink; the probe returns; the runner takes the duration
\* (remote runner) and prints what it reads from the result
MainFinally ==
    /\ pc = "main_finally"
    /\ \E ok \in BOOLEAN :
         /\ tmp_exists' = Unlink(tmp_exists, ok)
         /\ unlinked' = IF ok THEN "ok" ELSE "failed"
    /\ pending' = Unset
    /\ IF IsRaise(pending)
       THEN Fault /\ returned' = pending /\ UNCHANGED <<api_result, duration>>
       ELSE /\ returned' = pending
            /\ api_result' = pending
            /\ IF runner = "local"
               THEN UNCHANGED duration
               ELSE \E d \in Durations : duration' = d
            /\ IF MainReportRaises(EnvOf(runner), pending)
               THEN Fault
               ELSE pc' = "runner_return" /\ UNCHANGED exit_code
    /\ UNCHANGED <<args, runner, calls, reply, health_result, cap_result,
                   results, printed, vvars>>

\* return {...}; main() stores the bundle and goes on
RunnerReturn ==
    /\ pc = "runner_return"
    /\ results' = (EnvOf(runner) :> Bundle(EnvOf(runner), health_result,
                                           cap_result, api_result, duration))
                    @@ results
    /\ pc' = CASE runner = "local" -> "args_vercel"
               [] runner = "vercel" -> "args_both"
               [] OTHER -> "summary"
    /\ runner' = "none"
    /\ calls' = <<>>
    /\ reply' = Unset
    /\ returned' = Unset
    /\ health_result' = Unset
    /\ cap_result' = Unset
    /\ api_result' = Unset
    /\ duration' = 0
    /\ unlinked' = "none"
    /\ tmp_exists' = FALSE
    /\ UNCHANGED <<args, pending, printed, exit_code, vvars>>

\* TEST SUMMARY (a listing of the statuses, which only prints) and
\* "Next steps"; main() returns and the process exits 0
Summary ==
    /\ pc = "summary"
    /\ printed' = LocalGuidance(results) \cup VercelGuidance(results)
    /\ pc' = "done"
    /\ exit_code' = <<0>>
    /\ UNCHANGED <<args, runner, calls, reply, returned, pending, health_result,
                   cap_result, api_result, duration, tmp_exists, unlinked,
                   results, vvars>>

(***************************************************************************)
(* validate_vercel_files()                                                 *)
(***************************************************************************)
\* required_files, in the order of the dict
RequiredFiles == <<"vercel.json", "api/index.py", "requirements-vercel.txt",
                   "README-vercel.md", "test-vercel.html", "example-questions.txt">>
RequiredSet == {RequiredFiles[i] : i \in DOMAIN RequiredFiles}

\* required_imports
RequiredImports == {"FastAPI", "UploadFile", "File", "HTTPException"}

\* `imp in content` is a substring test: File occurs inside UploadFile
Occurs(imp, names) ==
    imp \in names \/ (imp = "File" /\ "UploadFile" \in names)

ConfigTexts == {ConfigText, ConfigNoRoutesText, ConfigListText, NumText,
                NullText, BadText}

RECURSIVE MissingFrom(_, _)
\* the existence loop: the required files from position i on that are absent
MissingFrom(i, present) ==
    IF i > Len(RequiredFiles) THEN <<>>
    ELSE IF RequiredFiles[i] \in present
         THEN MissingFrom(i + 1, present)
         ELSE <<RequiredFiles[i]>> \o MissingFrom(i + 1, present)

\* the validator is called; the content of an absent file is immaterial
InitValidate ==
    /\ disk \in SUBSET RequiredSet
    /\ vercel_text \in (IF "vercel.json" \in disk THEN ConfigTexts ELSE {BadText})
    /\ index_names \in (IF "api/index.py" \in disk
                        THEN SUBSET RequiredImports ELSE {{}})
    /\ vpc = "files"
    /\ missing_files = <<>>
    /\ report = {}
    /\ retval = <<>>
    /\ TestIdle

\* for file_path, description in required_files.items(): ...
ValidateFiles ==
    /\ vpc = "files"
    /\ missing_files' = MissingFrom(1, disk)
    /\ vpc' = "config"
    /\ UNCHANGED <<disk, vercel_text, index_names, report, retval, tvars>>

\* try: json.load(open('vercel.json')); 'builds' in config and 'routes' in config
\* except FileNotFoundError / json.JSONDecodeError.  Any other exception leaves
\* the function.
ValidateConfig ==
    /\ vpc = "config"
    /\ IF "vercel.json" \notin disk
       THEN report' = report \cup {<<"vercel.json", "not found">>}
              /\ vpc' = "imports"
       ELSE LET j == JsonLoads(vercel_text) IN
            IF ~j.ok
            THEN report' = report \cup {<<"vercel.json", "invalid json">>}
                   /\ vpc' = "imports"
            ELSE IF InRaises(j.value)
                 THEN report' = report \cup {<<"vercel.json", "valid json">>}
                        /\ vpc' = "raised"
                 ELSE report' = report \cup {<<"vercel.json", "valid json">>}
                        \cup (IF InHolds("builds", j.value) /\ InHolds("routes", j.value)
                              THEN {<<"vercel.json", "has builds and routes">>}
                              ELSE {<<"vercel.json", "missing builds or routes">>})
                        /\ vpc' = "imports"
    /\ UNCHANGED <<disk, vercel_text, index_names, missing_files, retval, tvars>>

\* try: content = open('api/index.py').read(); for imp in required_imports: ...
\* except FileNotFoundError
ValidateImports ==
    /\ vpc = "imports"
    /\ IF "api/index.py" \notin disk
       THEN report' = report \cup {<<"api/index.py", "not found">>}
       ELSE report' = report
              \cup {<<"has import", imp>> : imp \in {i \in RequiredImports : Occurs(i, index_names)}}
              \cup {<<"missing import", imp>> : imp \in {i \in RequiredImports : ~Occurs(i, index_names)}}
    /\ vpc' = "summary"
    /\ UNCHANGED <<disk, vercel_text, index_names, missing_files, retval, tvars>>

\* if missing_files: return False; else: return True
ValidateSummary ==
    /\ vpc = "summary"
    /\ retval' = <<missing_files = <<>> >>
    /\ vpc' = "returned"
    /\ UNCHANGED <<disk, vercel_text, index_names, missing_files, report, tvars>>

NextValidate ==
    \/ ValidateFiles
    \/ ValidateConfig
    \/ ValidateImports
    \/ ValidateSummary

Next ==
    \/ StartLocal
    \/ StartVercel
    \/ StartExample
    \/ HealthStep(CoreReplies)
    \/ CapStep(CoreReplies)
    \/ MainCreate
    \/ MainPost(CoreReplies)
    \/ MainFinally
    \/ RunnerReturn
    \/ Summary

NextProbes ==
    \/ StartLocal
    \/ StartVercel
    \/ StartExample
    \/ HealthStep(AllReplies)
    \/ CapStep(AllReplies)
    \/ MainCreate
    \/ MainPost(AllReplies)
    \/ MainFinally
    \/ RunnerReturn
    \/ Summary

Spec == Init /\ [][Next]_vars
SpecProbes == InitProbes /\ [][NextProbes]_vars
SpecValidate == InitValidate /\ [][NextValidate]_vars

(***************************************************************************)
(* Properties                                                              *)
(***************************************************************************)
ProbeNames == <<"health", "capabilities", "main_api">>

\* a probe call has ended, and reply is the outcome of its HTTP call
ProbeEnded == returned # Unset /\ reply # Unset

\* the HTTP failures as the claim lists them: timeout, connection refused,
\* a status outside 2xx, a body that is not JSON
FailureAsClaimed(r) ==
    \/ r.kind \in {"timeout", "refused"}
    \/ r.kind = "response" /\ (r.code \notin 200..299 \/ ~JsonLoads(r.text).ok)

\* the same with "a 4xx or 5xx status" for "a status outside 2xx"
Failure(r) ==
    \/ r.kind \in {"timeout", "refused"}
    \/ r.kind = "response" /\ (r.code \in 400..599 \/ ~JsonLoads(r.text).ok)

C2_AsStated ==
    /\ unlinked # "none" => ~tmp_exists
    /\ pc \in {"main_post", "main_finally"} => tmp_exists

\* C2 amended: once the main probe has ended, its temporary file is gone if
\* os.unlink succeeded; if os.unlink failed the file is still there and the
\* probe has returned its result all the same (the failure is swallowed).
\* The file exists from its creation until the HTTP call has completed.
C2_CleanupBestEffort ==
    /\ unlinked = "ok" => ~tmp_exists
    /\ unlinked = "failed" => (tmp_exists /\ IsResult(returned))
    /\ pc \in {"main_post", "main_finally"} => tmp_exists

\* C2 witness: the main probe returned an error result and its file is gone
C2_Witness ==
    /\ unlinked = "ok"
    /\ ~tmp_exists
    /\ IsResult(returned)
    /\ returned.status = "error"

\* C3: when a runner call has ended, by returning or by an exception, it has
\* invoked health, capabilities and main_api once each, in that order.
C3_AllProbesRun ==
    pc \in {"runner_return", "fault"} => calls = ProbeNames

ThreeSuccess(b) ==
    /\ b.health.status = "success"
    /\ b.capabilities.status = "success"
    /\ b.main_api.status = "success"

\* C4: for every bundle main() holds, the verdict the summary computes is true
\* exactly when health, capabilities and main_api are all "success", and it is
\* the same for every value of the duration entry; the summary's pass line of
\* an environment is printed exactly on that verdict.
C4_VerdictIsStrictAnd ==
    /\ \A env \in DOMAIN results :
          /\ AllSuccess(results[env]) <=> ThreeSuccess(results[env])
          /\ "duration" \in DOMAIN results[env] =>
                \A d \in Durations :
                    AllSuccess([results[env] EXCEPT !.duration = PyFloat(d)])
                      <=> ThreeSuccess(results[env])
    /\ pc = "done" =>
          /\ "local" \in DOMAIN results =>
                ("local_passed" \in printed <=> ThreeSuccess(results["local"]))
          /\ "vercel" \in DOMAIN results =>
                ("vercel_working" \in printed <=> ThreeSuccess(results["vercel"]))

\* C4 witness: a remote bundle with exactly one "error" got a false verdict
C4_Witness ==
    /\ pc = "done"
    /\ "vercel" \in DOMAIN results
    /\ results["vercel"].health.status = "success"
    /\ results["vercel"].capabilities.status = "success"
    /\ results["vercel"].main_api.status = "error"
    /\ "vercel_issues" \in printed
    /\ "vercel_working" \notin printed

\* C8: whenever the process has ended, main() ran to its end and the exit
\* code is 0.
C8_AlwaysExitsZero ==
    exit_code # <<>> => (pc = "done" /\ exit_code = <<0>>)

LocalPassed ==
    "local" \in DOMAIN results /\ ThreeSuccess(results["local"])

\* C9: after the summary, the 'local tests passed' guidance is printed exactly
\* when a local bundle was collected and its three probes are "success";
\* otherwise the 'local tests failed' guidance is printed; exactly one of the
\* two is printed.
C9_LocalGuidance ==
    pc = "done" =>
        /\ "local_passed" \in printed <=> LocalPassed
        /\ "local_failed" \in printed <=> ~LocalPassed
        /\ Cardinality(printed \cap {"local_passed", "local_failed"}) = 1

\* C9 witness: only --vercel was given, no local bundle, 'failed' is printed
C9_Witness ==
    /\ pc = "done"
    /\ "local" \notin DOMAIN results
    /\ "vercel" \in DOMAIN results
    /\ "local_failed" \in printed

RemoteLines == {"vercel_working", "cold_start", "vercel_issues"}

\* C10: after the summary, remote guidance is printed only with a remote
\* bundle; all "success" prints 'deployment working', with the cold-start
\* annotation exactly when the duration is above 10; an "error" prints
\* 'deployment has issues' and never the annotation.
C10_RemoteGuidance ==
    pc = "done" =>
        IF "vercel" \notin DOMAIN results
        THEN printed \cap RemoteLines = {}
        ELSE IF ThreeSuccess(results["vercel"])
             THEN /\ "vercel_working" \in printed
                  /\ "vercel_issues" \notin printed
                  /\ "cold_start" \in printed
                       <=> results["vercel"].duration.float > ColdStartThreshold
             ELSE printed \cap RemoteLines = {"vercel_issues"}

\* C10 witness: all "success" with a duration of exactly 10, no annotation
C10_Witness ==
    /\ pc = "done"
    /\ "vercel" \in DOMAIN results
    /\ ThreeSuccess(results["vercel"])
    /\ results["vercel"].duration.float = ColdStartThreshold
    /\ "vercel_working" \in printed
    /\ "cold_start" \notin printed

Elems(q) == {q[i] : i \in DOMAIN q}

\* C5: when validate_vercel_files has ended, it has returned True if no
\* required file is absent and False otherwise, and missing_files lists
\* exactly the absent required files.
C5_VerdictFromMissingFiles ==
    vpc \in {"returned", "raised"} =>
        /\ retval = <<RequiredSet \subseteq disk>>
        /\ Elems(missing_files) = RequiredSet \ disk

\* C6: with the six required files present, the validator returns the same
\* verdict (True) whatever vercel.json and api/index.py contain; an
\* undecodable vercel.json is reported as invalid JSON and not as not found.
C6_VerdictIgnoresContent ==
    (vpc \in {"returned", "raised"} /\ disk = RequiredSet) =>
        /\ vpc = "returned"
        /\ retval = <<TRUE>>
        /\ ~JsonLoads(vercel_text).ok =>
              /\ <<"vercel.json", "invalid json">> \in report
              /\ <<"vercel.json", "not found">> \notin report

====
